---- MODULE Spec2Model ----
(***************************************************************************)
(* Transactional file storage engine (AsyncFileSession) and the            *)
(* Unit-of-Work coordinator (get_file_holder_service) of                   *)
(* vanin2004/file_storage.                                                 *)
(*                                                                         *)
(* The storage root is a flat directory: fs maps each existing file name   *)
(* to its bytes.  A file name is a sequence of characters, so that the     *)
(* f-string  f"{prefix}{file_name}"  and  str.startswith  are computed,    *)
(* not assumed.  Every filesystem call the code awaits is one step of the  *)
(* model, so that sessions interleave between any two calls.               *)
(***************************************************************************)
EXTENDS Integers, Sequences, FiniteSets, TLC

\* ------------------------------------------------------------------ bounds
\* engine calls (add, flush, commit, rollback, recover, get) one client makes
MaxOps == 4
\* injected I/O failures (disk full, permission denied) in one behaviour
MaxFail == 1
\* engine calls each of two concurrent sessions makes
ConcOps == 2
\* add, flush and commit calls each of two racing sessions makes
RaceOps == 3

\* ------------------------------------------------------- names and contents
\* settings.pending_file_prefix ("pending_"), one character here
Prefix == <<"p">>
\* logical names handed to the engine: two unrelated names and one that
\* itself begins with the reserved prefix
Names == {<<"a">>, <<"b">>, <<"p", "a">>}
\* contents passed to add(): different lengths, so that an overwrite in
\* place of a longer file by a shorter one is visible
Contents == {<<1>>, <<2, 2>>}
\* content of the files found in the storage root at start
OldContent == <<7>>
\* the bytes of a file just opened with mode "wb"
Empty == <<>>

Sessions == {"A", "B"}

\* faulty variant: one staging path for every logical name
PendingNameShared(file_name) == Prefix
\* f"{self._pending_prefix}{file_name}"
PendingName(file_name) == Prefix \o file_name
\* f.startswith(self._pending_prefix)
StartsWith(f, prefix) ==
    /\ Len(f) >= Len(prefix)
    /\ SubSeq(f, 1, Len(prefix)) = prefix
\* every file name the sessions can touch
Files == Names \cup {PendingName(n) : n \in Names}

\* ----------------------------------------------------------------- state
VARIABLES
    fs,        \* the storage root: existing file name -> bytes
    kind,      \* per session: "off", "client" (calls the engine directly),
               \* "unit" (dependencies.py), "nested" (injectors: get_fs around
               \* get_file_holder_service)
    pc,        \* per session: where its task stands
    ctx,       \* per session: who called the running engine method
    pending,   \* per session: self._pending, a dict in insertion order
    keys,      \* per session: the names the running loop still has to process
    fd,        \* per session: the file its open handle points at, <<>> if none
    exc,       \* per session: the exception in flight or delivered, "none" if none
    db,        \* per session: its database transaction
    last,      \* per session: the last engine call, its inputs and its outcome
    log,       \* per session: what the coordinator did, in order
    budget,    \* per session: engine calls it may still make
    fuel,      \* I/O failures still to inject
    hist       \* per session: the storage root when its unit of work began
               \* (the yield of the provider), and every name it has passed
               \* to add()

vars == <<fs, kind, pc, ctx, pending, keys, fd, exc, db, last, log, budget, fuel, hist>>

\* ----------------------------------------------------------- filesystem
\* aiofiles.os.path.exists(path)
Exists(f, path) == path \in DOMAIN f
\* aiofiles.os.remove(path) on an existing path
Remove(f, path) == [p \in DOMAIN f \ {path} |-> f[p]]
\* faulty variant: the staging file is copied to the final name and left in place
RenameCopies(f, src, dst) ==
    [p \in DOMAIN f \cup {dst} |-> IF p = dst THEN f[src] ELSE f[p]]
\* aiofiles.os.rename(src, dst) on an existing src: dst is replaced
Rename(f, src, dst) ==
    [p \in (DOMAIN f \ {src}) \cup {dst} |-> IF p = dst THEN f[src] ELSE f[p]]
\* aiofiles.open(path, "wb"): creates the file or truncates it in place
OpenWb(f, path) == [p \in DOMAIN f \cup {path} |-> IF p = path THEN Empty ELSE f[p]]
\* out_file.write(data) at offset 0 of a file holding old
Overlay(old, data) ==
    IF Len(data) >= Len(old) THEN data
    ELSE data \o SubSeq(old, Len(data) + 1, Len(old))
\* the write reaches the file the handle points at, wherever it is named now
WriteAt(f, handle, data) ==
    IF handle = <<>> THEN f
    ELSE [f EXCEPT ![handle[1]] = Overlay(f[handle[1]], data)]
\* what a rename or a remove does to the open handles of all sessions
FdAfterRemove(path) ==
    [s \in Sessions |-> IF fd[s] = <<path>> THEN <<>> ELSE fd[s]]
FdAfterRename(src, dst) ==
    [s \in Sessions |-> IF fd[s] = <<dst>> THEN <<>>
                        ELSE IF fd[s] = <<src>> THEN <<dst>> ELSE fd[s]]
\* the outcomes of one I/O call: it may fail while fuel is left
IoOk == IF fuel > 0 THEN {TRUE, FALSE} ELSE {TRUE}
Burn(ok) == IF ok THEN fuel ELSE fuel - 1

\* ------------------------------------------------------------ the buffer
\* self._pending as a sequence of <<name, bytes>> in insertion order
\* faulty variant: the names come out last added first
KeysReversed(d) == [i \in 1..Len(d) |-> d[Len(d) + 1 - i][1]]
\* list(self._pending.keys()): the names in insertion order
Keys(d) == [i \in 1..Len(d) |-> d[i][1]]
HasKey(d, n) == \E i \in 1..Len(d) : d[i][1] = n
Lookup(d, n) == d[CHOOSE i \in 1..Len(d) : d[i][1] = n][2]
\* faulty variant: every add appends an entry, also for a buffered name
DictSetAppends(d, n, c) == Append(d, <<n, c>>)
\* self._pending[file_name] = file_bytes
DictSet(d, n, c) ==
    IF HasKey(d, n) THEN [i \in 1..Len(d) |-> IF d[i][1] = n THEN <<n, c>> ELSE d[i]]
    ELSE Append(d, <<n, c>>)

\* the errors of the storage layer: LocalStorageError and its subclasses.
\* "FileNotFoundError" is the class this module defines; the exception of
\* that name Python raises for a missing file is "builtins.FileNotFoundError"
LocalStorageErrors == {"LocalStorageUnavailableError", "FileNotFoundError", "FileWriteError"}

\* ------------------------------------------------- calls and their returns
\* op: the method; arg: its name argument; buf, fs0, fuel0: the buffer, the
\* storage root and the fuel when it was called; ret: "run" while it runs, then
\* "ok" or the exception; val: what get() read, or <<label, name>> of the step
\* at which commit() or rollback() raised
NoCall == [op |-> "none", arg |-> <<>>, buf |-> <<>>, fs0 |-> <<>>, fuel0 |-> 0, ret |-> "none", val |-> <<>>]
\* the record of a call that starts now
Call(s, op, arg) ==
    [op |-> op, arg |-> arg, buf |-> pending[s], fs0 |-> fs, fuel0 |-> fuel,
     ret |-> "run", val |-> <<>>]

\* where a unit goes when get_file_holder_service has finished, normally
\* (ok) or by raising: the generator of dependencies.py is the outermost one;
\* that of injectors/file_holder_service.py runs inside get_fs, whose code
\* after its own yield runs next
AfterUnit(s, ok) ==
    IF kind[s] = "nested" THEN (IF ok THEN "o_fscommit" ELSE "o_fsrollback")
    ELSE "done"

\* control goes back to whoever called the engine method: c is the caller,
\* e the exception raised ("ok" if none), l the record of the call
Return(s, c, e, l) ==
    /\ last' = [last EXCEPT ![s] = [l EXCEPT !.ret = e]]
    /\ ctx' = [ctx EXCEPT ![s] = "none"]
    /\ CASE c = "client" ->
              \* the caller of the engine sees the result
              /\ pc' = [pc EXCEPT ![s] = "ready"]
              /\ exc' = [exc EXCEPT ![s] = IF e = "ok" THEN "none" ELSE e]
              /\ log' = log
         [] c = "provider" ->
              \* dependencies.py:34: recover() before anything else; if it
              \* raises, the generator never yields
              /\ pc' = [pc EXCEPT ![s] = IF e = "ok" THEN "u_dbopen" ELSE "done"]
              /\ exc' = [exc EXCEPT ![s] = IF e = "ok" THEN "none" ELSE e]
              /\ log' = [log EXCEPT ![s] = Append(@, IF e = "ok" THEN "recover_ok" ELSE "recover_fail")]
         [] c = "save" ->
              \* FileRepository.save: flush() raised inside the business logic
              /\ pc' = [pc EXCEPT ![s] = IF e = "ok" THEN "u_open" ELSE "u_dbrollback"]
              /\ exc' = [exc EXCEPT ![s] = IF e = "ok" THEN "none" ELSE e]
              /\ log' = [log EXCEPT ![s] = IF e = "ok" THEN @ ELSE Append(@, "save_raise")]
         [] c = "uow_commit" ->
              \* dependencies.py:49-52: file_session.commit() inside the try
              /\ pc' = [pc EXCEPT ![s] = IF e = "ok" THEN AfterUnit(s, TRUE) ELSE "u_dbrollback"]
              /\ exc' = [exc EXCEPT ![s] = IF e = "ok" THEN "none" ELSE e]
              /\ log' = [log EXCEPT ![s] = Append(@, IF e = "ok" THEN "fs_commit_ok" ELSE "fs_commit_fail")]
         [] c = "uow_rollback" ->
              \* dependencies.py:53-54: file_session.rollback(), then raise
              /\ pc' = [pc EXCEPT ![s] = AfterUnit(s, FALSE)]
              /\ exc' = [exc EXCEPT ![s] = IF e = "ok" THEN @ ELSE e]
              /\ log' = [log EXCEPT ![s] = Append(@, IF e = "ok" THEN "fs_rollback_ok" ELSE "fs_rollback_fail")]
         [] c = "delete" ->
              \* FileHolderService.delete_file: FileRepository.delete inside
              \* the business logic; what it raises is thrown at the yield
              /\ pc' = [pc EXCEPT ![s] = IF e = "ok" THEN "u_open" ELSE "u_dbrollback"]
              /\ exc' = [exc EXCEPT ![s] = IF e = "ok" THEN "none" ELSE e]
              /\ log' = [log EXCEPT ![s] = Append(@, IF e = "ok" THEN "delete_ok" ELSE "delete_raise")]
         [] c = "sync" ->
              \* FileHolderService.sync_storage_with_db inside the business
              \* logic; what it raises is thrown at the yield
              /\ pc' = [pc EXCEPT ![s] = IF e = "ok" THEN "u_open" ELSE "u_dbrollback"]
              /\ exc' = [exc EXCEPT ![s] = IF e = "ok" THEN "none" ELSE e]
              /\ log' = [log EXCEPT ![s] = Append(@, IF e = "ok" THEN "sync_ok" ELSE "sync_raise")]
         [] c = "outer_commit" ->
              \* injectors/localstorage.py:30-33: session.commit() inside the try
              /\ pc' = [pc EXCEPT ![s] = IF e = "ok" THEN "done" ELSE "o_fsrollback"]
              /\ exc' = [exc EXCEPT ![s] = IF e = "ok" THEN "none" ELSE e]
              /\ log' = [log EXCEPT ![s] = Append(@, IF e = "ok" THEN "outer_commit_ok" ELSE "outer_commit_fail")]
         [] c = "outer_rollback" ->
              \* injectors/localstorage.py:31-33: session.rollback(), then raise
              /\ pc' = [pc EXCEPT ![s] = "done"]
              /\ exc' = [exc EXCEPT ![s] = IF e = "ok" THEN @ ELSE e]
              /\ log' = [log EXCEPT ![s] = Append(@, IF e = "ok" THEN "outer_rollback_ok" ELSE "outer_rollback_fail")]

\* control stays inside the engine method, at label l
Goto(s, l) ==
    /\ pc' = [pc EXCEPT ![s] = l]
    /\ UNCHANGED <<ctx, exc, last, log>>

\* ------------------------------------ get_fs (injectors/connections.py)
\* return async_session(): the caller gets a new session as it is, and calls
\* its methods itself
GetFs(s) ==
    /\ kind[s] = "client"
    /\ pc[s] = "c_new"
    /\ pc' = [pc EXCEPT ![s] = "ready"]
    /\ log' = [log EXCEPT ![s] = Append(@, "handed")]
    /\ UNCHANGED <<fs, kind, hist, ctx, pending, keys, fd, exc, db, last, budget, fuel>>

\* ------------------------------------------------------ AsyncFileSession.add
Add(s, n, c) ==
    /\ kind[s] = "client"
    /\ pc[s] = "ready"
    /\ budget[s] > 0
    /\ pending' = [pending EXCEPT ![s] = DictSet(@, n, c)]
    /\ budget' = [budget EXCEPT ![s] = @ - 1]
    /\ hist' = [hist EXCEPT ![s].names = @ \cup {n}]
    /\ Return(s, "client", "ok", Call(s, "add", n))
    /\ UNCHANGED <<fs, kind, keys, fd, fuel, db>>

\* ---------------------------------------------------- AsyncFileSession.flush
\* flush() starts: the loop runs over self._pending.items()
BeginFlush(s, c) ==
    /\ keys' = [keys EXCEPT ![s] = Keys(pending'[s])]
    /\ IF pending'[s] = <<>>
       THEN Return(s, c, "ok", [Call(s, "flush", <<>>) EXCEPT !.buf = pending'[s]])
       ELSE /\ pc' = [pc EXCEPT ![s] = "fl_open"]
            /\ ctx' = [ctx EXCEPT ![s] = c]
            /\ last' = [last EXCEPT ![s] = [Call(s, "flush", <<>>) EXCEPT !.buf = pending'[s]]]
            /\ UNCHANGED <<exc, log>>

Flush(s) ==
    /\ kind[s] = "client"
    /\ pc[s] = "ready"
    /\ budget[s] > 0
    /\ budget' = [budget EXCEPT ![s] = @ - 1]
    /\ pending' = pending
    /\ BeginFlush(s, "client")
    /\ UNCHANGED <<fs, kind, hist, fd, fuel, db>>

\* faulty variant: the staging file is opened for exclusive creation ("xb"),
\* which fails when it exists already
FlushOpenExclusive(s) ==
    /\ pc[s] = "fl_open"
    /\ IF Exists(fs, PendingName(Head(keys[s])))
       THEN /\ keys' = [keys EXCEPT ![s] = <<>>]
            /\ Return(s, ctx[s], "FileWriteError", last[s])
            /\ UNCHANGED <<fs, fd, fuel>>
       ELSE /\ fs' = OpenWb(fs, PendingName(Head(keys[s])))
            /\ fd' = [fd EXCEPT ![s] = <<PendingName(Head(keys[s]))>>]
            /\ keys' = keys
            /\ fuel' = fuel
            /\ Goto(s, "fl_write")
    /\ UNCHANGED <<kind, hist, pending, budget, db>>
\* aiofiles.open(pending_path, "wb")
FlushOpen(s) ==
    /\ pc[s] = "fl_open"
    /\ \E ok \in IoOk :
         /\ fuel' = Burn(ok)
         /\ IF ok
            THEN /\ fs' = OpenWb(fs, PendingName(Head(keys[s])))
                 /\ fd' = [fd EXCEPT ![s] = <<PendingName(Head(keys[s]))>>]
                 /\ keys' = keys
                 /\ Goto(s, "fl_write")
            ELSE \* except Exception: raise FileWriteError; the buffer stays
                 /\ keys' = [keys EXCEPT ![s] = <<>>]
                 /\ Return(s, ctx[s], "FileWriteError", last[s])
                 /\ UNCHANGED <<fs, fd>>
    /\ UNCHANGED <<kind, hist, pending, budget, db>>

\* faulty variant: a failed write drops the buffer, as commit() does
FlushWriteClears(s) ==
    /\ pc[s] = "fl_write"
    /\ fd' = [fd EXCEPT ![s] = <<>>]
    /\ \E ok \in IoOk :
         /\ fuel' = Burn(ok)
         /\ IF ok
            THEN /\ fs' = WriteAt(fs, fd[s], Lookup(pending[s], Head(keys[s])))
                 /\ keys' = [keys EXCEPT ![s] = Tail(@)]
                 /\ pending' = pending
                 /\ IF Tail(keys[s]) = <<>>
                    THEN Return(s, ctx[s], "ok", last[s])
                    ELSE Goto(s, "fl_open")
            ELSE /\ fs' = fs
                 /\ keys' = [keys EXCEPT ![s] = <<>>]
                 /\ pending' = [pending EXCEPT ![s] = <<>>]
                 /\ Return(s, ctx[s], "FileWriteError", last[s])
    /\ UNCHANGED <<kind, hist, budget, db>>
\* out_file.write(file_bytes), and the close that ends the with block
FlushWrite(s) ==
    /\ pc[s] = "fl_write"
    /\ fd' = [fd EXCEPT ![s] = <<>>]
    /\ \E ok \in IoOk :
         /\ fuel' = Burn(ok)
         /\ IF ok
            THEN /\ fs' = WriteAt(fs, fd[s], Lookup(pending[s], Head(keys[s])))
                 /\ keys' = [keys EXCEPT ![s] = Tail(@)]
                 /\ IF Tail(keys[s]) = <<>>
                    THEN Return(s, ctx[s], "ok", last[s])
                    ELSE Goto(s, "fl_open")
            ELSE /\ fs' = fs
                 /\ keys' = [keys EXCEPT ![s] = <<>>]
                 /\ Return(s, ctx[s], "FileWriteError", last[s])
    /\ UNCHANGED <<kind, hist, pending, budget, db>>

\* --------------------------------------------------- AsyncFileSession.commit
\* commit() starts: the loop runs over list(self._pending.keys())
BeginCommit(s, c) ==
    /\ keys' = [keys EXCEPT ![s] = Keys(pending[s])]
    /\ IF pending[s] = <<>>
       THEN Return(s, c, "ok", Call(s, "commit", <<>>))
       ELSE /\ pc' = [pc EXCEPT ![s] = "cm_open"]
            /\ ctx' = [ctx EXCEPT ![s] = c]
            /\ last' = [last EXCEPT ![s] = Call(s, "commit", <<>>)]
            /\ UNCHANGED <<exc, log>>

Commit(s) ==
    /\ kind[s] = "client"
    /\ pc[s] = "ready"
    /\ budget[s] > 0
    /\ budget' = [budget EXCEPT ![s] = @ - 1]
    /\ BeginCommit(s, "client")
    /\ UNCHANGED <<fs, kind, hist, pending, fd, fuel, db>>

\* faulty variant: the exception of a failed step is swallowed
CommitRaiseSwallows(s) ==
    /\ pending' = [pending EXCEPT ![s] = <<>>]
    /\ keys' = [keys EXCEPT ![s] = <<>>]
    /\ Return(s, ctx[s], "ok", [last[s] EXCEPT !.val = <<pc[s], Head(keys[s])>>])
\* faulty variant: the buffer is cleared at the end of the try body, not in a finally
CommitRaiseKeepsBuffer(s) ==
    /\ pending' = pending
    /\ keys' = [keys EXCEPT ![s] = <<>>]
    /\ Return(s, ctx[s], "FileWriteError", [last[s] EXCEPT !.val = <<pc[s], Head(keys[s])>>])
\* except Exception as e: raise FileWriteError; finally: self._pending.clear()
CommitRaise(s) ==
    /\ pending' = [pending EXCEPT ![s] = <<>>]
    /\ keys' = [keys EXCEPT ![s] = <<>>]
    /\ Return(s, ctx[s], "FileWriteError", [last[s] EXCEPT !.val = <<pc[s], Head(keys[s])>>])

\* faulty variant: a commit that succeeds leaves the buffer as it is
CommitNextKeepsBuffer(s) ==
    /\ keys' = [keys EXCEPT ![s] = Tail(@)]
    /\ pending' = pending
    /\ IF Tail(keys[s]) = <<>>
       THEN Return(s, ctx[s], "ok", last[s])
       ELSE Goto(s, "cm_open")
\* the loop goes to its next name, or ends: finally: self._pending.clear()
CommitNext(s) ==
    /\ keys' = [keys EXCEPT ![s] = Tail(@)]
    /\ IF Tail(keys[s]) = <<>>
       THEN /\ pending' = [pending EXCEPT ![s] = <<>>]
            /\ Return(s, ctx[s], "ok", last[s])
       ELSE /\ pending' = pending
            /\ Goto(s, "cm_open")

\* faulty variant: a staging file that exists already is not written again
CommitOpenKeepsStaged(s) ==
    /\ pc[s] = "cm_open"
    /\ IF ~Exists(fs, PendingName(Head(keys[s])))
       THEN \E ok \in IoOk :
              /\ fuel' = Burn(ok)
              /\ IF ok
                 THEN /\ fs' = OpenWb(fs, PendingName(Head(keys[s])))
                      /\ fd' = [fd EXCEPT ![s] = <<PendingName(Head(keys[s]))>>]
                      /\ Goto(s, "cm_write")
                      /\ UNCHANGED <<pending, keys>>
                 ELSE /\ CommitRaise(s)
                      /\ UNCHANGED <<fs, fd>>
       ELSE /\ Goto(s, "cm_chkfinal")
            /\ UNCHANGED <<fs, fd, fuel, pending, keys>>
    /\ UNCHANGED <<kind, hist, budget, db>>
\* faulty variant: the bytes are written over the final file itself
CommitOpenFinal(s) ==
    /\ pc[s] = "cm_open"
    /\ \E ok \in IoOk :
         /\ fuel' = Burn(ok)
         /\ IF ok
            THEN /\ fs' = OpenWb(fs, Head(keys[s]))
                 /\ fd' = [fd EXCEPT ![s] = <<Head(keys[s])>>]
                 /\ Goto(s, "cm_write")
                 /\ UNCHANGED <<pending, keys>>
            ELSE /\ CommitRaise(s)
                 /\ UNCHANGED <<fs, fd>>
    /\ UNCHANGED <<kind, hist, budget, db>>
\* if file_name in self._pending: aiofiles.open(pending_path, "wb")
CommitOpen(s) ==
    /\ pc[s] = "cm_open"
    /\ IF HasKey(pending[s], Head(keys[s]))
       THEN \E ok \in IoOk :
              /\ fuel' = Burn(ok)
              /\ IF ok
                 THEN /\ fs' = OpenWb(fs, PendingName(Head(keys[s])))
                      /\ fd' = [fd EXCEPT ![s] = <<PendingName(Head(keys[s]))>>]
                      /\ Goto(s, "cm_write")
                      /\ UNCHANGED <<pending, keys>>
                 ELSE /\ CommitRaise(s)
                      /\ UNCHANGED <<fs, fd>>
       ELSE /\ Goto(s, "cm_chkfinal")
            /\ UNCHANGED <<fs, fd, fuel, pending, keys>>
    /\ UNCHANGED <<kind, hist, budget, db>>

\* out_file.write(self._pending[file_name]), and the close
CommitWrite(s) ==
    /\ pc[s] = "cm_write"
    /\ fd' = [fd EXCEPT ![s] = <<>>]
    /\ \E ok \in IoOk :
         /\ fuel' = Burn(ok)
         /\ IF ok
            THEN /\ fs' = WriteAt(fs, fd[s], Lookup(pending[s], Head(keys[s])))
                 /\ Goto(s, "cm_chkfinal")
                 /\ UNCHANGED <<pending, keys>>
            ELSE /\ fs' = fs
                 /\ CommitRaise(s)
    /\ UNCHANGED <<kind, hist, budget, db>>

\* if await aiofiles.os.path.exists(final_path)
CommitCheckFinal(s) ==
    /\ pc[s] = "cm_chkfinal"
    /\ Goto(s, IF Exists(fs, Head(keys[s])) THEN "cm_rmfinal" ELSE "cm_chkpend")
    /\ UNCHANGED <<fs, kind, hist, pending, keys, fd, budget, fuel, db>>

\* await aiofiles.os.remove(final_path)
CommitRemoveFinal(s) ==
    /\ pc[s] = "cm_rmfinal"
    /\ IF Exists(fs, Head(keys[s]))
       THEN \E ok \in IoOk :
              /\ fuel' = Burn(ok)
              /\ IF ok
                 THEN /\ fs' = Remove(fs, Head(keys[s]))
                      /\ fd' = FdAfterRemove(Head(keys[s]))
                      /\ Goto(s, "cm_chkpend")
                      /\ UNCHANGED <<pending, keys>>
                 ELSE /\ CommitRaise(s)
                      /\ UNCHANGED <<fs, fd>>
       ELSE \* the file went away since the check: the OS error is wrapped
            /\ CommitRaise(s)
            /\ UNCHANGED <<fs, fd, fuel>>
    /\ UNCHANGED <<kind, hist, budget, db>>

\* if await aiofiles.os.path.exists(pending_path)
CommitCheckPending(s) ==
    /\ pc[s] = "cm_chkpend"
    /\ IF Exists(fs, PendingName(Head(keys[s])))
       THEN /\ Goto(s, "cm_rename")
            /\ UNCHANGED <<pending, keys>>
       ELSE CommitNext(s)
    /\ UNCHANGED <<fs, kind, hist, fd, budget, fuel, db>>

\* faulty variant: a rename that fails has replaced the final file all the same
CommitRenameFailsLate(s) ==
    /\ pc[s] = "cm_rename"
    /\ IF Exists(fs, PendingName(Head(keys[s])))
       THEN \E ok \in IoOk :
              /\ fuel' = Burn(ok)
              /\ fs' = Rename(fs, PendingName(Head(keys[s])), Head(keys[s]))
              /\ fd' = FdAfterRename(PendingName(Head(keys[s])), Head(keys[s]))
              /\ IF ok THEN CommitNext(s) ELSE CommitRaise(s)
       ELSE /\ CommitRaise(s)
            /\ UNCHANGED <<fs, fd, fuel>>
    /\ UNCHANGED <<kind, hist, budget, db>>
\* await aiofiles.os.rename(pending_path, final_path)
CommitRename(s) ==
    /\ pc[s] = "cm_rename"
    /\ IF Exists(fs, PendingName(Head(keys[s])))
       THEN \E ok \in IoOk :
              /\ fuel' = Burn(ok)
              /\ IF ok
                 THEN /\ fs' = Rename(fs, PendingName(Head(keys[s])), Head(keys[s]))
                      /\ fd' = FdAfterRename(PendingName(Head(keys[s])), Head(keys[s]))
                      /\ CommitNext(s)
                 ELSE /\ CommitRaise(s)
                      /\ UNCHANGED <<fs, fd>>
       ELSE /\ CommitRaise(s)
            /\ UNCHANGED <<fs, fd, fuel>>
    /\ UNCHANGED <<kind, hist, budget, db>>

\* the awaits of commit(): the points at which its task can be cancelled
CommitLabels == {"cm_open", "cm_write", "cm_chkfinal", "cm_rmfinal", "cm_chkpend", "cm_rename"}

\* faulty variant: the provider catches the cancellation (except
\* BaseException) and goes on to its rollbacks
CancelCaught(s) ==
    /\ pc[s] \in CommitLabels
    /\ pending' = [pending EXCEPT ![s] = <<>>]
    /\ keys' = [keys EXCEPT ![s] = <<>>]
    /\ fd' = [fd EXCEPT ![s] = <<>>]
    /\ last' = [last EXCEPT ![s] = [@ EXCEPT !.ret = "CancelledError",
                                             !.val = <<"cancelled", Head(keys[s])>>]]
    /\ ctx' = [ctx EXCEPT ![s] = "none"]
    /\ exc' = [exc EXCEPT ![s] = "CancelledError"]
    /\ pc' = [pc EXCEPT ![s] = IF ctx[s] = "client" THEN "done" ELSE "u_dbrollback"]
    /\ log' = [log EXCEPT ![s] = IF ctx[s] = "client" THEN @ ELSE Append(@, "cancelled")]
    /\ UNCHANGED <<fs, kind, hist, db, budget, fuel>>
\* the task running commit() is cancelled while it waits at one of its
\* awaits: CancelledError (a BaseException) is raised there.  The with block
\* closes the file, "except Exception" does not catch it, "finally" clears
\* the buffer; the "except Exception" of the providers does not catch it
\* either, so the task ends there.  val: the entry the loop was at
Cancel(s) ==
    /\ pc[s] \in CommitLabels
    /\ pending' = [pending EXCEPT ![s] = <<>>]
    /\ keys' = [keys EXCEPT ![s] = <<>>]
    /\ fd' = [fd EXCEPT ![s] = <<>>]
    /\ last' = [last EXCEPT ![s] = [@ EXCEPT !.ret = "CancelledError",
                                             !.val = <<"cancelled", Head(keys[s])>>]]
    /\ ctx' = [ctx EXCEPT ![s] = "none"]
    /\ exc' = [exc EXCEPT ![s] = "CancelledError"]
    /\ pc' = [pc EXCEPT ![s] = "done"]
    /\ log' = [log EXCEPT ![s] = IF ctx[s] = "client" THEN @ ELSE Append(@, "cancelled")]
    /\ UNCHANGED <<fs, kind, hist, db, budget, fuel>>

\* ------------------------------------------------- AsyncFileSession.rollback
BeginRollback(s, c) ==
    /\ keys' = [keys EXCEPT ![s] = Keys(pending[s])]
    /\ IF pending[s] = <<>>
       THEN Return(s, c, "ok", Call(s, "rollback", <<>>))
       ELSE /\ pc' = [pc EXCEPT ![s] = "rb_chk"]
            /\ ctx' = [ctx EXCEPT ![s] = c]
            /\ last' = [last EXCEPT ![s] = Call(s, "rollback", <<>>)]
            /\ UNCHANGED <<exc, log>>

Rollback(s) ==
    /\ kind[s] = "client"
    /\ pc[s] = "ready"
    /\ budget[s] > 0
    /\ budget' = [budget EXCEPT ![s] = @ - 1]
    /\ BeginRollback(s, "client")
    /\ UNCHANGED <<fs, kind, hist, pending, fd, fuel, db>>

\* except Exception as e: raise FileWriteError; finally: self._pending.clear()
RollbackRaise(s) ==
    /\ pending' = [pending EXCEPT ![s] = <<>>]
    /\ keys' = [keys EXCEPT ![s] = <<>>]
    /\ Return(s, ctx[s], "FileWriteError", [last[s] EXCEPT !.val = <<pc[s], Head(keys[s])>>])

RollbackNext(s) ==
    /\ keys' = [keys EXCEPT ![s] = Tail(@)]
    /\ IF Tail(keys[s]) = <<>>
       THEN /\ pending' = [pending EXCEPT ![s] = <<>>]
            /\ Return(s, ctx[s], "ok", last[s])
       ELSE /\ pending' = pending
            /\ Goto(s, "rb_chk")

\* faulty variant: rollback only forgets the entry and leaves its staging file
RollbackCheckSkips(s) ==
    /\ pc[s] = "rb_chk"
    /\ RollbackNext(s)
    /\ UNCHANGED <<fs, kind, hist, fd, budget, fuel, db>>
\* if await aiofiles.os.path.exists(pending_path)
RollbackCheck(s) ==
    /\ pc[s] = "rb_chk"
    /\ IF Exists(fs, PendingName(Head(keys[s])))
       THEN /\ Goto(s, "rb_rm")
            /\ UNCHANGED <<pending, keys>>
       ELSE RollbackNext(s)
    /\ UNCHANGED <<fs, kind, hist, fd, budget, fuel, db>>

\* await aiofiles.os.remove(pending_path)
RollbackRemove(s) ==
    /\ pc[s] = "rb_rm"
    /\ IF Exists(fs, PendingName(Head(keys[s])))
       THEN \E ok \in IoOk :
              /\ fuel' = Burn(ok)
              /\ IF ok
                 THEN /\ fs' = Remove(fs, PendingName(Head(keys[s])))
                      /\ fd' = FdAfterRemove(PendingName(Head(keys[s])))
                      /\ RollbackNext(s)
                 ELSE /\ RollbackRaise(s)
                      /\ UNCHANGED <<fs, fd>>
       ELSE /\ RollbackRaise(s)
            /\ UNCHANGED <<fs, fd, fuel>>
    /\ UNCHANGED <<kind, hist, budget, db>>

\* -------------------------------------------------- AsyncFileSession.recover
\* the orders in which listdir may return the names of S
Orders(S) == {q \in [1..Cardinality(S) -> S] : \A i, j \in 1..Cardinality(S) : q[i] = q[j] => i = j}
\* faulty variant: the listing is not filtered by the prefix
PendingFilesUnfiltered(f) == DOMAIN f
\* [f for f in files if f.startswith(self._pending_prefix)]
PendingFiles(f) == {p \in DOMAIN f : StartsWith(p, Prefix)}

\* files = await aiofiles.os.listdir(self._storage_path); nothing is caught
BeginRecover(s, c) ==
    \E ok \in IoOk :
      /\ fuel' = Burn(ok)
      /\ IF ok
         THEN \E q \in Orders(PendingFiles(fs)) :
                /\ keys' = [keys EXCEPT ![s] = q]
                /\ IF q = <<>>
                   THEN Return(s, c, "ok", Call(s, "recover", <<>>))
                   ELSE /\ pc' = [pc EXCEPT ![s] = "rc_rm"]
                        /\ ctx' = [ctx EXCEPT ![s] = c]
                        /\ last' = [last EXCEPT ![s] = Call(s, "recover", <<>>)]
                        /\ UNCHANGED <<exc, log>>
         ELSE /\ keys' = keys
              /\ Return(s, c, "OSError", Call(s, "recover", <<>>))

Recover(s) ==
    /\ kind[s] = "client"
    /\ pc[s] = "ready"
    /\ budget[s] > 0
    /\ budget' = [budget EXCEPT ![s] = @ - 1]
    /\ BeginRecover(s, "client")
    /\ UNCHANGED <<fs, kind, hist, pending, fd, db>>

\* await aiofiles.os.remove(pending_path)
RecoverRemove(s) ==
    /\ pc[s] = "rc_rm"
    /\ IF Exists(fs, Head(keys[s]))
       THEN \E ok \in IoOk :
              /\ fuel' = Burn(ok)
              /\ IF ok
                 THEN /\ fs' = Remove(fs, Head(keys[s]))
                      /\ fd' = FdAfterRemove(Head(keys[s]))
                      /\ keys' = [keys EXCEPT ![s] = Tail(@)]
                      /\ IF Tail(keys[s]) = <<>>
                         THEN Return(s, ctx[s], "ok", last[s])
                         ELSE Goto(s, "rc_rm")
                 ELSE /\ keys' = [keys EXCEPT ![s] = <<>>]
                      /\ Return(s, ctx[s], "OSError", last[s])
                      /\ UNCHANGED <<fs, fd>>
       ELSE \* the listed file is gone: the builtin FileNotFoundError propagates
            /\ keys' = [keys EXCEPT ![s] = <<>>]
            /\ Return(s, ctx[s], "builtins.FileNotFoundError", last[s])
            /\ UNCHANGED <<fs, fd, fuel>>
    /\ UNCHANGED <<kind, hist, pending, budget, db>>

\* ------------------------------------------------------ AsyncFileSession.get
\* aiofiles.open(path, "rb") and read(): the except clause names the
\* module's own FileNotFoundError class, which open() never raises, so the
\* builtin FileNotFoundError of a missing file propagates as it is
GetResult(f, n) ==
    IF Exists(f, n) THEN [ret |-> "ok", val |-> f[n]]
    ELSE [ret |-> "builtins.FileNotFoundError", val |-> <<>>]

Get(s, n) ==
    /\ kind[s] = "client"
    /\ pc[s] = "ready"
    /\ budget[s] > 0
    /\ budget' = [budget EXCEPT ![s] = @ - 1]
    /\ Return(s, "client", GetResult(fs, n).ret,
              [Call(s, "get", n) EXCEPT !.val = GetResult(fs, n).val])
    /\ UNCHANGED <<fs, kind, hist, pending, keys, fd, fuel, db>>

\* --------------------------------------------------- AsyncFileSession.delete
\* if await aiofiles.os.path.exists(file_path): ... ; return False
BeginDelete(s, c, n) ==
    IF Exists(fs, n)
    THEN /\ pc' = [pc EXCEPT ![s] = "dl_rm"]
         /\ ctx' = [ctx EXCEPT ![s] = c]
         /\ keys' = [keys EXCEPT ![s] = <<n>>]
         /\ last' = [last EXCEPT ![s] = Call(s, "delete", n)]
         /\ UNCHANGED <<exc, log>>
    ELSE /\ keys' = keys
         /\ Return(s, c, "ok", [Call(s, "delete", n) EXCEPT !.val = <<"False">>])

Delete(s, n) ==
    /\ kind[s] = "client"
    /\ pc[s] = "ready"
    /\ budget[s] > 0
    /\ budget' = [budget EXCEPT ![s] = @ - 1]
    /\ BeginDelete(s, "client", n)
    /\ UNCHANGED <<fs, kind, hist, pending, fd, fuel, db>>

\* faulty variant: the removal is put off and True is returned at once
DeleteRemoveDeferred(s) ==
    /\ pc[s] = "dl_rm"
    /\ keys' = [keys EXCEPT ![s] = <<>>]
    /\ Return(s, ctx[s], "ok", [last[s] EXCEPT !.val = <<"True">>])
    /\ UNCHANGED <<fs, fd, fuel, kind, hist, pending, budget, db>>
\* await aiofiles.os.remove(file_path); return True.  Nothing is caught: an
\* OS error, or the builtin FileNotFoundError of a file gone since the
\* check, propagates as it is
DeleteRemove(s) ==
    /\ pc[s] = "dl_rm"
    /\ keys' = [keys EXCEPT ![s] = <<>>]
    /\ IF Exists(fs, Head(keys[s]))
       THEN \E ok \in IoOk :
              /\ fuel' = Burn(ok)
              /\ IF ok
                 THEN /\ fs' = Remove(fs, Head(keys[s]))
                      /\ fd' = FdAfterRemove(Head(keys[s]))
                      /\ Return(s, ctx[s], "ok", [last[s] EXCEPT !.val = <<"True">>])
                 ELSE /\ Return(s, ctx[s], "OSError", last[s])
                      /\ UNCHANGED <<fs, fd>>
       ELSE /\ Return(s, ctx[s], "builtins.FileNotFoundError", last[s])
            /\ UNCHANGED <<fs, fd, fuel>>
    /\ UNCHANGED <<kind, hist, pending, budget, db>>

\* ------------------------------------- get_file_holder_service (unit of work)
\* file_session = AsyncFileSession(...); await file_session.recover()
\* (dependencies.py), or get_fs: session = async_session(); await
\* session.recover() (injectors/localstorage.py)
Start(s) ==
    /\ kind[s] \in {"unit", "nested"}
    /\ pc[s] = "u_new"
    /\ BeginRecover(s, "provider")
    /\ UNCHANGED <<fs, kind, hist, pending, fd, db, budget>>

\* async with async_session() as db_session; yield service
OpenDb(s) ==
    /\ pc[s] = "u_dbopen"
    /\ pc' = [pc EXCEPT ![s] = "u_open"]
    /\ db' = [db EXCEPT ![s] = "active"]
    /\ log' = [log EXCEPT ![s] = Append(@, "open")]
    /\ hist' = [hist EXCEPT ![s].root = fs]
    /\ UNCHANGED <<fs, kind, ctx, pending, keys, fd, exc, last, budget, fuel>>

\* FileHolderService.create_file: the metadata row is saved in the open
\* transaction, then FileRepository.save does add() and flush()
Save(s, n, c) ==
    /\ pc[s] = "u_open"
    /\ budget[s] > 0
    /\ budget' = [budget EXCEPT ![s] = @ - 1]
    /\ pending' = [pending EXCEPT ![s] = DictSet(@, n, c)]
    /\ hist' = [hist EXCEPT ![s].names = @ \cup {n}]
    /\ BeginFlush(s, "save")
    /\ UNCHANGED <<fs, kind, fd, fuel, db>>

\* FileHolderService.delete_file: FileRepository.delete removes the file at
\* once; the metadata row is then deleted in the open transaction
DeleteFile(s, n) ==
    /\ pc[s] = "u_open"
    /\ budget[s] > 0
    /\ budget' = [budget EXCEPT ![s] = @ - 1]
    /\ BeginDelete(s, "delete", n)
    /\ UNCHANGED <<fs, kind, hist, pending, fd, fuel, db>>

\* the business logic raises (ServiceFileAlreadyExistsError, ...): the
\* exception is thrown into the generator at the yield
BusinessRaise(s) ==
    /\ pc[s] = "u_open"
    /\ pc' = [pc EXCEPT ![s] = "u_dbrollback"]
    /\ exc' = [exc EXCEPT ![s] = "BusinessError"]
    /\ log' = [log EXCEPT ![s] = Append(@, "business_raise")]
    /\ UNCHANGED <<fs, kind, hist, ctx, pending, keys, fd, db, last, budget, fuel>>

\* faulty variant: the coordinator commits the file session before the database
BusinessOkFilesFirst(s) ==
    /\ pc[s] = "u_open"
    /\ pc' = [pc EXCEPT ![s] = "u_fscommit"]
    /\ UNCHANGED <<fs, kind, hist, ctx, pending, keys, fd, exc, db, last, log, budget, fuel>>
\* the business logic returns: the generator resumes after the yield
BusinessOk(s) ==
    /\ pc[s] = "u_open"
    /\ pc' = [pc EXCEPT ![s] = "u_dbcommit"]
    /\ UNCHANGED <<fs, kind, hist, ctx, pending, keys, fd, exc, db, last, log, budget, fuel>>

\* faulty variant: a failed database commit is logged and passed over
DbCommitIgnoresFailure(s) ==
    /\ pc[s] = "u_dbcommit"
    /\ \E ok \in BOOLEAN :
         /\ db' = [db EXCEPT ![s] = IF ok THEN "committed" ELSE @]
         /\ log' = [log EXCEPT ![s] = Append(@, IF ok THEN "db_commit_ok" ELSE "db_commit_fail")]
    /\ pc' = [pc EXCEPT ![s] = "u_fscommit"]
    /\ exc' = exc
    /\ UNCHANGED <<fs, kind, hist, ctx, pending, keys, fd, last, budget, fuel>>
\* await db_session.commit()
DbCommit(s) ==
    /\ pc[s] = "u_dbcommit"
    /\ \E ok \in BOOLEAN :
         IF ok
         THEN /\ db' = [db EXCEPT ![s] = "committed"]
              /\ pc' = [pc EXCEPT ![s] = "u_fscommit"]
              /\ log' = [log EXCEPT ![s] = Append(@, "db_commit_ok")]
              /\ exc' = exc
         ELSE /\ db' = db
              /\ pc' = [pc EXCEPT ![s] = "u_dbrollback"]
              /\ log' = [log EXCEPT ![s] = Append(@, "db_commit_fail")]
              /\ exc' = [exc EXCEPT ![s] = "DbCommitError"]
    /\ UNCHANGED <<fs, kind, hist, ctx, pending, keys, fd, last, budget, fuel>>

\* await file_session.commit()
FsCommit(s) ==
    /\ pc[s] = "u_fscommit"
    /\ BeginCommit(s, "uow_commit")
    /\ UNCHANGED <<fs, kind, hist, pending, fd, db, budget, fuel>>

\* faulty variant: the rollback of the except branch also undoes a committed change
DbRollbackUndoesCommit(s) ==
    /\ pc[s] = "u_dbrollback"
    /\ db' = [db EXCEPT ![s] = "rolledback"]
    /\ pc' = [pc EXCEPT ![s] = "u_fsrollback"]
    /\ log' = [log EXCEPT ![s] = Append(@, "db_rollback_ok")]
    /\ UNCHANGED <<fs, kind, hist, ctx, pending, keys, fd, exc, last, budget, fuel>>
\* except Exception: await db_session.rollback().  What was committed stays
\* committed; if the rollback raises, its exception leaves the except block
DbRollback(s) ==
    /\ pc[s] = "u_dbrollback"
    /\ \E ok \in BOOLEAN :
         IF ok
         THEN /\ db' = [db EXCEPT ![s] = IF @ = "committed" THEN @ ELSE "rolledback"]
              /\ pc' = [pc EXCEPT ![s] = "u_fsrollback"]
              /\ log' = [log EXCEPT ![s] = Append(@, "db_rollback_ok")]
              /\ exc' = exc
         ELSE /\ db' = db
              /\ pc' = [pc EXCEPT ![s] = AfterUnit(s, FALSE)]
              /\ log' = [log EXCEPT ![s] = Append(@, "db_rollback_fail")]
              /\ exc' = [exc EXCEPT ![s] = "DbRollbackError"]
    /\ UNCHANGED <<fs, kind, hist, ctx, pending, keys, fd, last, budget, fuel>>

\* await file_session.rollback(); raise
FsRollback(s) ==
    /\ pc[s] = "u_fsrollback"
    /\ BeginRollback(s, "uow_rollback")
    /\ UNCHANGED <<fs, kind, hist, pending, fd, db, budget, fuel>>

\* ------------------------------------------ get_fs (injectors/localstorage.py)
\* after its yield, on the way out without exception: await session.commit()
OuterCommit(s) ==
    /\ pc[s] = "o_fscommit"
    /\ BeginCommit(s, "outer_commit")
    /\ UNCHANGED <<fs, kind, hist, pending, fd, db, budget, fuel>>

\* except Exception: await session.rollback(); raise
OuterRollback(s) ==
    /\ pc[s] = "o_fsrollback"
    /\ BeginRollback(s, "outer_rollback")
    /\ UNCHANGED <<fs, kind, hist, pending, fd, db, budget, fuel>>

\* -------------------------------------- FileHolderService.sync_storage_with_db
\* the uuids of the metadata rows committed before any unit of work began
KnownUuids == {<<"a">>}
\* uuid.uuid4() of create_file: a new name for every unit of work
NewUuid(s) == IF s = "A" THEN <<"b">> ELSE <<"c">>
\* the metadata rows that are committed: those known at start and those
\* saved by a unit of work whose database transaction has committed
CommittedMeta == KnownUuids \cup UNION {hist[t].names : t \in {u \in Sessions : db[u] = "committed"}}
\* {file_meta.uuid for file_meta in await self._file_meta_repository.list()}:
\* the committed rows and the rows of the session's own open transaction
MetaList(s) == CommittedMeta \cup (IF db[s] = "active" THEN hist[s].names ELSE {})
\* [f for f in files if not f.startswith(self._pending_prefix)]
ListFiles(f) == {p \in DOMAIN f : ~StartsWith(p, Prefix)}

\* uuids = {...}; await self._file_repository.delete_files_not_in_uuids(uuids):
\* the metadata is read now, the directory at the next step
SyncStorage(s) ==
    /\ pc[s] = "u_open"
    /\ budget[s] > 0
    /\ budget' = [budget EXCEPT ![s] = @ - 1]
    /\ last' = [last EXCEPT ![s] = Call(s, "delete_files_not_in_uuids", MetaList(s))]
    /\ pc' = [pc EXCEPT ![s] = "sy_list"]
    /\ ctx' = [ctx EXCEPT ![s] = "sync"]
    /\ UNCHANGED <<fs, kind, hist, pending, keys, fd, exc, db, log, fuel>>

\* files = await self._session.list_files(): a failed listdir is raised as
\* LocalStorageUnavailableError
SyncListFiles(s) ==
    /\ pc[s] = "sy_list"
    /\ \E ok \in IoOk :
         /\ fuel' = Burn(ok)
         /\ IF ok
            THEN \E q \in Orders(ListFiles(fs)) :
                   /\ keys' = [keys EXCEPT ![s] = q]
                   /\ IF q = <<>>
                      THEN Return(s, ctx[s], "ok", last[s])
                      ELSE Goto(s, "sy_chk")
            ELSE /\ keys' = keys
                 /\ Return(s, ctx[s], "LocalStorageUnavailableError", last[s])
    /\ UNCHANGED <<fs, kind, hist, pending, fd, budget, db>>

\* the loop goes to its next file, or ends
SyncNext(s) ==
    /\ keys' = [keys EXCEPT ![s] = Tail(@)]
    /\ IF Tail(keys[s]) = <<>>
       THEN Return(s, ctx[s], "ok", last[s])
       ELSE Goto(s, "sy_chk")

\* if file not in uuids: await self.delete(file), which begins with
\* if await aiofiles.os.path.exists(file_path)
SyncCheck(s) ==
    /\ pc[s] = "sy_chk"
    /\ IF Head(keys[s]) \notin last[s].arg /\ Exists(fs, Head(keys[s]))
       THEN /\ Goto(s, "sy_rm")
            /\ keys' = keys
       ELSE SyncNext(s)
    /\ UNCHANGED <<fs, kind, hist, pending, fd, budget, fuel, db>>

\* await aiofiles.os.remove(file_path): nothing is caught
SyncRemove(s) ==
    /\ pc[s] = "sy_rm"
    /\ IF Exists(fs, Head(keys[s]))
       THEN \E ok \in IoOk :
              /\ fuel' = Burn(ok)
              /\ IF ok
                 THEN /\ fs' = Remove(fs, Head(keys[s]))
                      /\ fd' = FdAfterRemove(Head(keys[s]))
                      /\ SyncNext(s)
                 ELSE /\ keys' = [keys EXCEPT ![s] = <<>>]
                      /\ Return(s, ctx[s], "OSError", last[s])
                      /\ UNCHANGED <<fs, fd>>
       ELSE /\ keys' = [keys EXCEPT ![s] = <<>>]
            /\ Return(s, ctx[s], "builtins.FileNotFoundError", last[s])
            /\ UNCHANGED <<fs, fd, fuel>>
    /\ UNCHANGED <<kind, hist, pending, budget, db>>

\* ------------------------------------------------------------ specification
\* the storage root at start: any files, final or left over by a crash
InitFs == UNION {[D -> {OldContent}] : D \in SUBSET Files}

InitOf(files, kinds, b, f) ==
    /\ fs \in files
    /\ kind \in kinds
    /\ pc = [s \in Sessions |-> CASE kind[s] = "client" -> "c_new"
                                  [] kind[s] \in {"unit", "nested"} -> "u_new"
                                  [] OTHER -> "off"]
    /\ ctx = [s \in Sessions |-> "none"]
    /\ pending = [s \in Sessions |-> <<>>]
    /\ keys = [s \in Sessions |-> <<>>]
    /\ fd = [s \in Sessions |-> <<>>]
    /\ exc = [s \in Sessions |-> "none"]
    /\ db = [s \in Sessions |-> "none"]
    /\ last = [s \in Sessions |-> NoCall]
    /\ log = [s \in Sessions |-> <<>>]
    /\ budget = [s \in Sessions |-> b]
    /\ fuel = f
    /\ hist = [s \in Sessions |-> [root |-> <<>>, names |-> {}]]

\* one session at a time: a client of the engine, or a unit of work
Solo == {[s \in Sessions |-> IF s = "A" THEN k ELSE "off"] : k \in {"client", "unit", "nested"}}
Init == InitOf(InitFs, Solo, MaxOps, MaxFail)

Next ==
    \E s \in Sessions :
      \/ GetFs(s)
      \/ \E n \in Names, c \in Contents : Add(s, n, c)
      \/ Flush(s)
      \/ FlushOpen(s)
      \/ FlushWrite(s)
      \/ Commit(s)
      \/ CommitOpen(s)
      \/ CommitWrite(s)
      \/ CommitCheckFinal(s)
      \/ CommitRemoveFinal(s)
      \/ CommitCheckPending(s)
      \/ CommitRename(s)
      \/ Cancel(s)
      \/ Rollback(s)
      \/ RollbackCheck(s)
      \/ RollbackRemove(s)
      \/ Recover(s)
      \/ RecoverRemove(s)
      \/ \E n \in Names : Get(s, n)
      \/ \E n \in Names : Delete(s, n)
      \/ DeleteRemove(s)
      \/ \E n \in Names : DeleteFile(s, n)
      \/ Start(s)
      \/ OpenDb(s)
      \/ \E n \in Names, c \in Contents : Save(s, n, c)
      \/ BusinessRaise(s)
      \/ BusinessOk(s)
      \/ DbCommit(s)
      \/ FsCommit(s)
      \/ DbRollback(s)
      \/ FsRollback(s)
      \/ OuterCommit(s)
      \/ OuterRollback(s)

Spec == Init /\ [][Next]_vars

\* two clients of the engine at once on the same storage root, no injected
\* I/O failure; the storage root starts empty or with one final file
ConcFs == {f \in InitFs : DOMAIN f \subseteq {<<"a">>}}
Duo == {[s \in Sessions |-> "client"]}
InitConc == InitOf(ConcFs, Duo, ConcOps, 0)
NextEngine ==
    \E s \in Sessions :
      \/ GetFs(s)
      \/ \E n \in Names, c \in Contents : Add(s, n, c)
      \/ Flush(s)
      \/ FlushOpen(s)
      \/ FlushWrite(s)
      \/ Commit(s)
      \/ CommitOpen(s)
      \/ CommitWrite(s)
      \/ CommitCheckFinal(s)
      \/ CommitRemoveFinal(s)
      \/ CommitCheckPending(s)
      \/ CommitRename(s)
      \/ Rollback(s)
      \/ RollbackCheck(s)
      \/ RollbackRemove(s)
      \/ Recover(s)
      \/ RecoverRemove(s)
      \/ \E n \in Names : Get(s, n)
SpecConc == InitConc /\ [][NextEngine]_vars

\* two sessions that stage and commit at once: each calls add(), flush() and
\* commit() in any order, with names that carry no reserved prefix and with
\* bytes of its own, so that the bytes of a file tell who wrote them
RaceNames == {n \in Names : ~StartsWith(n, Prefix)}
RaceContent(s) == IF s = "A" THEN <<1>> ELSE <<2, 2>>
InitRace == InitOf(ConcFs, Duo, RaceOps, 0)
NextRace ==
    \E s \in Sessions :
      \/ GetFs(s)
      \/ \E n \in RaceNames : Add(s, n, RaceContent(s))
      \/ Flush(s)
      \/ FlushOpen(s)
      \/ FlushWrite(s)
      \/ Commit(s)
      \/ CommitOpen(s)
      \/ CommitWrite(s)
      \/ CommitCheckFinal(s)
      \/ CommitRemoveFinal(s)
      \/ CommitCheckPending(s)
      \/ CommitRename(s)
SpecRace == InitRace /\ [][NextRace]_vars

\* one session that writes (add, flush, commit) and one that reads (get) on
\* the same storage root, interleaved at every filesystem call
Writer == "A"
Reader == "B"
NextRead ==
    \/ GetFs(Writer)
    \/ \E n \in RaceNames : Add(Writer, n, RaceContent(Writer))
    \/ Flush(Writer)
    \/ FlushOpen(Writer)
    \/ FlushWrite(Writer)
    \/ Commit(Writer)
    \/ CommitOpen(Writer)
    \/ CommitWrite(Writer)
    \/ CommitCheckFinal(Writer)
    \/ CommitRemoveFinal(Writer)
    \/ CommitCheckPending(Writer)
    \/ CommitRename(Writer)
    \/ GetFs(Reader)
    \/ \E n \in RaceNames : Get(Reader, n)
SpecRead == InitRace /\ [][NextRead]_vars

\* two sessions made by the factory of create_file_storage, each adding any
\* name with any content and flushing
NextFill ==
    \E s \in Sessions :
      \/ GetFs(s)
      \/ \E n \in Names, c \in Contents : Add(s, n, c)
      \/ Flush(s)
      \/ FlushOpen(s)
      \/ FlushWrite(s)
SpecFill == InitConc /\ [][NextFill]_vars

\* units of work on one storage root, each creating a file under its new
\* uuid or synchronising the storage with the metadata: alone, or two at once.
\* No file named by a new uuid exists before its commit, so commit() never
\* comes to remove a final file here
\* at start: the file of the known uuid, a file no metadata row names, a
\* staging file left by a crash, or any of them missing
Orphan == <<"o">>
SyncFs == UNION {[D -> {OldContent}] : D \in SUBSET {<<"a">>, Orphan, PendingName(<<"a">>)}}
SyncKinds == {[s \in Sessions |-> IF s = "A" THEN "unit" ELSE k] : k \in {"off", "unit"}}
InitSync == InitOf(SyncFs, SyncKinds, ConcOps, 0)
NextSync ==
    \E s \in Sessions :
      \/ Start(s)
      \/ RecoverRemove(s)
      \/ OpenDb(s)
      \/ Save(s, NewUuid(s), RaceContent(s))
      \/ FlushOpen(s)
      \/ FlushWrite(s)
      \/ SyncStorage(s)
      \/ SyncListFiles(s)
      \/ SyncCheck(s)
      \/ SyncRemove(s)
      \/ BusinessRaise(s)
      \/ BusinessOk(s)
      \/ DbCommit(s)
      \/ FsCommit(s)
      \/ CommitOpen(s)
      \/ CommitWrite(s)
      \/ CommitCheckFinal(s)
      \/ CommitCheckPending(s)
      \/ CommitRename(s)
      \/ DbRollback(s)
      \/ FsRollback(s)
      \/ RollbackCheck(s)
      \/ RollbackRemove(s)
SpecSync == InitSync /\ [][NextSync]_vars

\* one unit of work, of either provider, whose every database and filesystem
\* step returns: a step that can be taken is taken in the end
Units == {[s \in Sessions |-> IF s = "A" THEN k ELSE "off"] : k \in {"unit", "nested"}}
InitLive == InitOf(InitFs, Units, ConcOps, MaxFail)
NextLive ==
    \E s \in Sessions :
      \/ Start(s)
      \/ RecoverRemove(s)
      \/ OpenDb(s)
      \/ \E n \in Names, c \in Contents : Save(s, n, c)
      \/ FlushOpen(s)
      \/ FlushWrite(s)
      \/ \E n \in Names : DeleteFile(s, n)
      \/ DeleteRemove(s)
      \/ BusinessRaise(s)
      \/ BusinessOk(s)
      \/ DbCommit(s)
      \/ FsCommit(s)
      \/ CommitOpen(s)
      \/ CommitWrite(s)
      \/ CommitCheckFinal(s)
      \/ CommitRemoveFinal(s)
      \/ CommitCheckPending(s)
      \/ CommitRename(s)
      \/ DbRollback(s)
      \/ FsRollback(s)
      \/ RollbackCheck(s)
      \/ RollbackRemove(s)
      \/ OuterCommit(s)
      \/ OuterRollback(s)
SpecLive == InitLive /\ [][NextLive]_vars /\ WF_vars(NextLive)

\* ------------------------------------------------------------------ properties
\* the name n of buffer d shares neither its staging path nor its final path
\* with another buffered name (true of every buffer whose names do not begin
\* with the reserved prefix)
NoClash(d, n) ==
    \A i \in 1..Len(d) :
      d[i][1] # n => (PendingName(d[i][1]) # n /\ PendingName(n) # d[i][1])
\* the call of method op by session s has returned or raised
Returned(s, op) == last[s].op = op /\ last[s].ret # "run"

\* C1: with one session on the storage root, a commit() that met no I/O
\* failure (and whose task was not cancelled) returns without error, and
\* after a commit() that returned without error every buffered name n reads
\* back exactly its buffered content and
\* no file <prefix>n exists, whether or not it was flushed or existed before.
C1_CommitThenGet ==
    \A s \in Sessions :
      Returned(s, "commit") =>
        /\ (fuel = last[s].fuel0 /\ last[s].ret # "CancelledError") => last[s].ret = "ok"
        /\ last[s].ret = "ok" =>
             \A i \in 1..Len(last[s].buf) :
               NoClash(last[s].buf, last[s].buf[i][1]) =>
                 /\ GetResult(fs, last[s].buf[i][1]) = [ret |-> "ok", val |-> last[s].buf[i][2]]
                 /\ ~Exists(fs, PendingName(last[s].buf[i][1]))
\* a commit returned that overwrote an existing final file of other content
\* after the entry had been flushed
C1_Witness ==
    \E s \in Sessions :
      /\ Returned(s, "commit") /\ last[s].ret = "ok"
      /\ \E i \in 1..Len(last[s].buf) :
           /\ NoClash(last[s].buf, last[s].buf[i][1])
           /\ Exists(last[s].fs0, last[s].buf[i][1])
           /\ last[s].fs0[last[s].buf[i][1]] # last[s].buf[i][2]
           /\ Exists(last[s].fs0, PendingName(last[s].buf[i][1]))
           /\ last[s].fs0[PendingName(last[s].buf[i][1])] = last[s].buf[i][2]

\* the final file of name n is in f as it is in g: absent in both, or present
\* in both with the same bytes
SameFinal(f, g, n) ==
    /\ Exists(f, n) <=> Exists(g, n)
    /\ Exists(f, n) => f[n] = g[n]

\* C2: with one session on the storage root, each step of add(n,c), flush(),
\* rollback() leaves the final file of n as it found it; a rollback() that
\* met no I/O failure returns without error, flushed or not; and after a
\* rollback() that returned without error no file <prefix>n exists.
C2_RollbackUndoesStaging ==
    \A s \in Sessions :
      /\ Returned(s, "add") => fs = last[s].fs0
      /\ Returned(s, "flush") =>
           \A i \in 1..Len(last[s].buf) :
             NoClash(last[s].buf, last[s].buf[i][1]) =>
               SameFinal(fs, last[s].fs0, last[s].buf[i][1])
      /\ Returned(s, "rollback") =>
           /\ fuel = last[s].fuel0 => last[s].ret = "ok"
           /\ \A i \in 1..Len(last[s].buf) :
                NoClash(last[s].buf, last[s].buf[i][1]) =>
                  /\ SameFinal(fs, last[s].fs0, last[s].buf[i][1])
                  /\ last[s].ret = "ok" => ~Exists(fs, PendingName(last[s].buf[i][1]))
\* a rollback returned without error for a buffer with one entry that had
\* been flushed, over an existing final file, and one that never was
C2_Witness ==
    \E s \in Sessions :
      /\ Returned(s, "rollback") /\ last[s].ret = "ok"
      /\ \E i, j \in 1..Len(last[s].buf) :
           /\ NoClash(last[s].buf, last[s].buf[i][1])
           /\ NoClash(last[s].buf, last[s].buf[j][1])
           /\ Exists(last[s].fs0, PendingName(last[s].buf[i][1]))
           /\ last[s].fs0[PendingName(last[s].buf[i][1])] = last[s].buf[i][2]
           /\ Exists(last[s].fs0, last[s].buf[i][1])
           /\ ~Exists(last[s].fs0, PendingName(last[s].buf[j][1]))

\* C3: whenever commit() or rollback() has returned or raised, at whatever
\* step and for whatever buffer, the pending buffer of the session is empty.
C3_BufferCleared ==
    \A s \in Sessions :
      (Returned(s, "commit") \/ Returned(s, "rollback")) => pending[s] = <<>>
\* a commit of two entries raised at the rename of its second entry
C3_Witness ==
    \E s \in Sessions :
      /\ Returned(s, "commit")
      /\ last[s].ret = "FileWriteError"
      /\ Len(last[s].buf) = 2
      /\ last[s].val = <<"cm_rename", last[s].buf[2][1]>>
      /\ pending[s] = <<>>

\* C4: in every reachable state, under any interleaving of two sessions, the
\* bytes of every final file (a file whose name carries no reserved prefix)
\* are the complete bytes passed to some add(), or those the file held at
\* start: never the empty file of a truncation, never a partial write.
C4_FinalAlwaysComplete ==
    \A n \in Names :
      (~StartsWith(n, Prefix) /\ Exists(fs, n)) => fs[n] \in Contents \cup {OldContent}

\* the place of name n in buffer d
IndexOf(d, n) == CHOOSE i \in 1..Len(d) : d[i][1] = n
\* commit() of session s raised at the rename of one of its entries
RenameFailed(s) ==
    /\ Returned(s, "commit")
    /\ last[s].val # <<>>
    /\ last[s].val[1] = "cm_rename"

\* C5: if commit() fails at the rename of entry j, it raises the write
\* failure (FileWriteError) and every entry before j in buffer order is a
\* final file holding exactly its buffered content.
C5_PartialCommit ==
    \A s \in Sessions :
      RenameFailed(s) =>
        /\ last[s].ret = "FileWriteError"
        /\ \A i \in 1..Len(last[s].buf) :
             (i < IndexOf(last[s].buf, last[s].val[2])
                /\ NoClash(last[s].buf, last[s].buf[i][1])) =>
               GetResult(fs, last[s].buf[i][1]) = [ret |-> "ok", val |-> last[s].buf[i][2]]
\* the rename of the second of two entries failed, the first has no clash
C5_Witness ==
    \E s \in Sessions :
      /\ RenameFailed(s)
      /\ IndexOf(last[s].buf, last[s].val[2]) = 2
      /\ NoClash(last[s].buf, last[s].buf[1][1])
      /\ Exists(fs, last[s].buf[1][1])
      /\ fs[last[s].buf[1][1]] # OldContent

\* C6: when recover() has completed without error with one session on the
\* storage root, no file whose name starts with the reserved prefix exists,
\* and every file whose name does not start with it exists with the bytes it
\* had when recover() was called.
C6_RecoverPurges ==
    \A s \in Sessions :
      (Returned(s, "recover") /\ last[s].ret = "ok") =>
        /\ \A p \in DOMAIN fs : ~StartsWith(p, Prefix)
        /\ \A p \in DOMAIN last[s].fs0 :
             ~StartsWith(p, Prefix) => (Exists(fs, p) /\ fs[p] = last[s].fs0[p])
\* recover() returned after it found staging files and final files
C6_Witness ==
    \E s \in Sessions :
      /\ Returned(s, "recover") /\ last[s].ret = "ok"
      /\ \E p, q \in DOMAIN last[s].fs0 : StartsWith(p, Prefix) /\ ~StartsWith(q, Prefix)

\* the coordinator of unit s has logged event e
InLog(s, e) == \E i \in 1..Len(log[s]) : log[s][i] = e
\* file_session.commit() of unit s has been called by the coordinator
FsCommitBegun(s) ==
    \/ pc[s] = "u_fscommit"
    \/ ctx[s] = "uow_commit"
    \/ InLog(s, "fs_commit_ok")
    \/ InLog(s, "fs_commit_fail")

\* C7: in every unit of work the file session's commit() starts only after
\* the database commit has returned successfully, and no step taken while
\* the unit's database transaction is uncommitted makes an entry buffered by
\* the unit a final file: it neither creates nor rewrites the final file of
\* that name (delete_file may remove it).
C7_DbCommitFirst ==
    /\ [](\A s \in Sessions :
            FsCommitBegun(s) => (db[s] = "committed" /\ InLog(s, "db_commit_ok")))
    /\ [][\A s \in Sessions :
            (kind[s] \in {"unit", "nested"} /\ db[s] # "committed") =>
              \A i \in 1..Len(pending[s]) :
                NoClash(pending[s], pending[s][i][1]) =>
                  \/ SameFinal(fs', fs, pending[s][i][1])
                  \/ ~Exists(fs', pending[s][i][1])]_vars
\* a unit is about to rename a staging file in the commit the coordinator called
C7_Witness ==
    \E s \in Sessions :
      /\ kind[s] = "unit"
      /\ pc[s] = "cm_rename"
      /\ ctx[s] = "uow_commit"
      /\ db[s] = "committed"

\* C8: if the database commit of a unit fails, the file session is rolled
\* back: once the unit has ended (no I/O failure injected) the failure has
\* reached the caller, file_session.rollback() has run, and no staging file
\* of an entry the unit flushed is left.
C8_DbCommitFailRollsBack ==
    \A s \in Sessions :
      (pc[s] = "done" /\ InLog(s, "db_commit_fail") /\ fuel = MaxFail) =>
        /\ exc[s] # "none"
        /\ InLog(s, "fs_rollback_ok")
        /\ \A i \in 1..Len(last[s].buf) :
             NoClash(last[s].buf, last[s].buf[i][1]) =>
               ~Exists(fs, PendingName(last[s].buf[i][1]))

\* C9: if the database commit of a unit succeeded and the file-storage
\* commit then failed, the database change stays committed from then on
\* (the rollback of the except branch does not undo it) and the unit ends
\* with a failure delivered to its caller.
C9_DbStaysCommitted ==
    \A s \in Sessions :
      InLog(s, "fs_commit_fail") =>
        /\ db[s] = "committed"
        /\ pc[s] = "done" => exc[s] # "none"
\* a unit ended after its file commit failed and both rollbacks ran
C9_Witness ==
    \E s \in Sessions :
      /\ pc[s] = "done"
      /\ InLog(s, "db_commit_ok")
      /\ InLog(s, "fs_commit_fail")
      /\ InLog(s, "db_rollback_ok")
      /\ InLog(s, "fs_rollback_ok")

\* the exception that made unit s abort
Trigger(s) == IF InLog(s, "save_raise") THEN "FileWriteError" ELSE "BusinessError"

\* C10: if the business logic of a unit raised, then when the unit has ended
\* both the database rollback and the file-session rollback were attempted
\* (also when the database rollback failed) and the exception delivered to
\* the caller is the one that triggered the abort.
C10_AbortRollsBackBoth ==
    \A s \in Sessions :
      (pc[s] = "done" /\ (InLog(s, "business_raise") \/ InLog(s, "save_raise"))) =>
        /\ InLog(s, "db_rollback_ok") \/ InLog(s, "db_rollback_fail")
        /\ InLog(s, "fs_rollback_ok") \/ InLog(s, "fs_rollback_fail")
        /\ exc[s] = Trigger(s)

\* C11: when a unit of work has ended in abort because the business logic
\* raised or the database commit failed, every final file (every name
\* without the reserved prefix) is as it was when the unit began: present
\* with the same bytes or absent, whatever operations the unit ran,
\* create_file and delete_file included.
C11_AbortLeavesFinals ==
    \A s \in Sessions :
      (pc[s] = "done" /\ (InLog(s, "business_raise") \/ InLog(s, "db_commit_fail"))) =>
        \A n \in Names :
          ~StartsWith(n, Prefix) => SameFinal(fs, hist[s].root, n)

\* session s is a unit of work, under either provider
IsUnit(s) == kind[s] \in {"unit", "nested"}

\* C12: once the unit of work has terminated, committed or aborted (its
\* task was not cancelled), with recover() and every rollback it ran having
\* succeeded, no file carrying
\* the reserved prefix exists in the storage root (the unit saved no name
\* that itself begins with the prefix); in particular none is left after a
\* file-storage commit that failed partway and the rollback that followed.
C12_NoStagingLeft ==
    \A s \in Sessions :
      ( /\ IsUnit(s) /\ pc[s] = "done"
        /\ ~InLog(s, "cancelled")
        /\ InLog(s, "recover_ok")
        /\ ~InLog(s, "db_rollback_fail")
        /\ ~InLog(s, "fs_rollback_fail")
        /\ ~InLog(s, "outer_rollback_fail")
        /\ \A n \in hist[s].names : ~StartsWith(n, Prefix) ) =>
        \A p \in DOMAIN fs : ~StartsWith(p, Prefix)

\* rollback() of session s raised at the removal of a staging file, after
\* exactly one I/O failure
RemoveFailed(s) ==
    /\ Returned(s, "rollback")
    /\ last[s].val # <<>>
    /\ last[s].val[1] = "rb_rm"
    /\ fuel = last[s].fuel0 - 1

\* C13: if the deletion of the staging file of buffered entry j fails during
\* rollback(), rollback() signals the write failure (FileWriteError) only
\* after it has gone on to every remaining entry: no staging file of an
\* entry after j is left (their deletions meet no failure).
C13_RollbackBestEffort ==
    \A s \in Sessions :
      RemoveFailed(s) =>
        /\ last[s].ret = "FileWriteError"
        /\ \A i \in 1..Len(last[s].buf) :
             i > IndexOf(last[s].buf, last[s].val[2]) =>
               ~Exists(fs, PendingName(last[s].buf[i][1]))

\* C14: whenever recover() fails, because the storage root cannot be listed
\* or a prefixed file cannot be removed, the error it raises is the
\* storage-unavailable error (LocalStorageUnavailableError) and no other.
C14_RecoverUnavailable ==
    \A s \in Sessions :
      (Returned(s, "recover") /\ last[s].ret # "ok") =>
        last[s].ret = "LocalStorageUnavailableError"

Flushed(f, buf) ==
    \A i \in 1..Len(buf) :
      /\ Exists(f, PendingName(buf[i][1]))
      /\ f[PendingName(buf[i][1])] = buf[i][2]

\* C16: flush() is idempotent.  A flush() that meets no I/O failure returns
\* without error, for any buffer and any storage root; when it has returned
\* the buffer is unchanged and every entry has its staging file holding its
\* bytes; and a flush() called on a storage root in which that is already
\* so (as a first flush() leaves it) leaves the storage root identical, same
\* file names and same bytes.
C16_FlushIdempotent ==
    \A s \in Sessions :
      Returned(s, "flush") =>
        /\ fuel = last[s].fuel0 => last[s].ret = "ok"
        /\ last[s].ret = "ok" =>
             /\ pending[s] = last[s].buf
             /\ Flushed(fs, last[s].buf)
             /\ Flushed(last[s].fs0, last[s].buf) => fs = last[s].fs0
\* a flush of two entries returned on a storage root that already held both
\* staging files with the buffered bytes
C16_Witness ==
    \E s \in Sessions :
      /\ Returned(s, "flush") /\ last[s].ret = "ok"
      /\ Len(last[s].buf) = 2
      /\ Flushed(last[s].fs0, last[s].buf)
      /\ fs = last[s].fs0

\* sessions s and t have never passed the same name to add()
DisjointNames(s, t) == hist[s].names \cap hist[t].names = {}

\* C17: for two sessions that stage and commit at once and whose logical
\* names are disjoint, under every interleaving of the filesystem steps of
\* their flush() and commit() calls, each commit() returns without error and
\* leaves, as it would alone, every name it committed as a final file with
\* exactly its buffered bytes and no staging file of that name.
C17_DisjointCommits ==
    \A s, t \in Sessions :
      (s # t /\ DisjointNames(s, t) /\ Returned(s, "commit")) =>
        /\ last[s].ret = "ok"
        /\ \A i \in 1..Len(last[s].buf) :
             /\ GetResult(fs, last[s].buf[i][1]) = [ret |-> "ok", val |-> last[s].buf[i][2]]
             /\ ~Exists(fs, PendingName(last[s].buf[i][1]))
\* the commit of one session returned, having renamed its file while the
\* commit of the other, on another name, was under way and is now at its
\* own rename
C17_Witness ==
    \E s, t \in Sessions :
      /\ s # t /\ DisjointNames(s, t)
      /\ Returned(s, "commit") /\ Len(last[s].buf) = 1
      /\ last[t].op = "commit" /\ pc[t] = "cm_rename"
      /\ GetResult(last[t].fs0, last[s].buf[1][1]).val # last[s].buf[1][2]
      /\ GetResult(fs, last[s].buf[1][1]).val = last[s].buf[1][2]

\* C18: when two sessions have each committed the one name n, with contents
\* cA and cB, and both commits have returned without error, a final file n
\* exists and holds cA or cB, under every interleaving of the write, remove,
\* exists and rename steps of the two commits.
C18_LastRenameWins ==
    \A s, t \in Sessions :
      ( /\ s # t
        /\ Returned(s, "commit") /\ last[s].ret = "ok"
        /\ Returned(t, "commit") /\ last[t].ret = "ok"
        /\ Len(last[s].buf) = 1 /\ Len(last[t].buf) = 1
        /\ last[s].buf[1][1] = last[t].buf[1][1] ) =>
        /\ Exists(fs, last[s].buf[1][1])
        /\ fs[last[s].buf[1][1]] \in {last[s].buf[1][2], last[t].buf[1][2]}

\* session s has been handed to the code that uses it: the service of a unit
\* of work has been yielded, or get_fs has returned the session
Handed(s) == InLog(s, "open") \/ InLog(s, "handed")

\* C19: under every provider, a session that has been handed out, or has
\* run add, flush, commit or rollback, is one on which the provider first
\* called recover() and saw it return without error; a session whose
\* recover() failed is never handed out.
C19_RecoverFirst ==
    \A s \in Sessions :
      (Handed(s) \/ last[s].op \in {"add", "flush", "commit", "rollback"}) =>
        /\ log[s][1] = "recover_ok"
        /\ ~InLog(s, "recover_fail")

\* C20: get(n) for a name n that has no final file ends with the storage
\* layer's own not-found error (FileNotFoundError, a LocalStorageError),
\* with no other error of the storage layer and with none outside it, and
\* leaves the buffer and the storage root as they were.
C20_GetNotFound ==
    \A s \in Sessions :
      (Returned(s, "get") /\ ~Exists(last[s].fs0, last[s].arg)) =>
        /\ last[s].ret \in LocalStorageErrors
        /\ last[s].ret = "FileNotFoundError"
        /\ fs = last[s].fs0
        /\ pending[s] = last[s].buf

\* the task of session s was cancelled inside commit()
Cancelled(s) == last[s].op = "commit" /\ last[s].ret = "CancelledError"
\* a rollback of the file session ran in the unit of work of s
RolledBack(s) ==
    \/ InLog(s, "fs_rollback_ok") \/ InLog(s, "fs_rollback_fail")
    \/ InLog(s, "outer_rollback_ok") \/ InLog(s, "outer_rollback_fail")

\* C21 (as stated): after a cancellation in the middle of commit(), every
\* entry already renamed is a final file, every entry not yet processed is
\* still in the buffer or has its staging file, and no rollback was run.
C21_CancelKeepsEntries ==
    \A s \in Sessions :
      /\ Cancelled(s) =>
           \A i \in 1..Len(last[s].buf) :
             /\ (i < IndexOf(last[s].buf, last[s].val[2])
                   /\ NoClash(last[s].buf, last[s].buf[i][1])) =>
                  GetResult(fs, last[s].buf[i][1]) = [ret |-> "ok", val |-> last[s].buf[i][2]]
             /\ i > IndexOf(last[s].buf, last[s].val[2]) =>
                  \/ HasKey(pending[s], last[s].buf[i][1])
                  \/ Exists(fs, PendingName(last[s].buf[i][1]))
      /\ InLog(s, "cancelled") => ~RolledBack(s)
\* C21 (amended): after a cancellation in the middle of commit(), every
\* entry already renamed is a final file with its buffered content, the
\* buffer is empty, the staging file of every entry not yet processed is as
\* it was when commit() was called (present only if it had been flushed),
\* and no rollback was run.
C21_CancelDropsBuffer ==
    \A s \in Sessions :
      /\ Cancelled(s) =>
           /\ pending[s] = <<>>
           /\ \A i \in 1..Len(last[s].buf) :
                NoClash(last[s].buf, last[s].buf[i][1]) =>
                  /\ i < IndexOf(last[s].buf, last[s].val[2]) =>
                       GetResult(fs, last[s].buf[i][1]) = [ret |-> "ok", val |-> last[s].buf[i][2]]
                  /\ i > IndexOf(last[s].buf, last[s].val[2]) =>
                       SameFinal(fs, last[s].fs0, PendingName(last[s].buf[i][1]))
      /\ InLog(s, "cancelled") => ~RolledBack(s)
\* a unit of work was cancelled at the second of two entries: the first is
\* final, the unit has ended and the staging file of the second is left
C21_Witness ==
    \E s \in Sessions :
      /\ IsUnit(s) /\ Cancelled(s) /\ pc[s] = "done" /\ InLog(s, "cancelled")
      /\ Len(last[s].buf) = 2
      /\ IndexOf(last[s].buf, last[s].val[2]) = 2
      /\ NoClash(last[s].buf, last[s].buf[1][1])
      /\ Exists(fs, last[s].buf[1][1])
      /\ Exists(fs, PendingName(last[s].buf[2][1]))

\* no name of buffer d is the staging path of another of its names
AllNoClash(d) == \A i \in 1..Len(d) : NoClash(d, d[i][1])
\* the storage root a commit of buffer d is to leave when started on f: every
\* buffered name final with its buffered bytes, none of their staging files,
\* every other file as it was
CommitOf(f, d) ==
    [p \in (DOMAIN f \ {PendingName(d[i][1]) : i \in 1..Len(d)}) \cup {d[i][1] : i \in 1..Len(d)} |->
       IF HasKey(d, p) THEN Lookup(d, p) ELSE f[p]]

\* C22: the storage root after a commit() that returned without error is
\* determined by the buffer (the last add of each name) and the other files:
\* whatever staging files earlier flushes left, each buffered name is final
\* with the bytes of its last add and has no staging file.
C22_CommitIgnoresFlush ==
    \A s \in Sessions :
      (Returned(s, "commit") /\ last[s].ret = "ok" /\ AllNoClash(last[s].buf)) =>
        fs = CommitOf(last[s].fs0, last[s].buf)
\* add(n, c1); flush(); add(n, c2); commit(): the staging file held c1 when
\* commit() was called and n is final with c2
C22_Witness ==
    \E s \in Sessions : \E n \in Names :
      /\ Returned(s, "commit") /\ last[s].ret = "ok"
      /\ last[s].buf # <<>> /\ AllNoClash(last[s].buf)
      /\ HasKey(last[s].buf, n)
      /\ Exists(last[s].fs0, PendingName(n))
      /\ last[s].fs0[PendingName(n)] \in Contents
      /\ last[s].fs0[PendingName(n)] # Lookup(last[s].buf, n)
      /\ Exists(fs, n) /\ fs[n] = Lookup(last[s].buf, n)

\* commit() of session s raised at the step of one of its entries
CommitFailed(s) ==
    /\ Returned(s, "commit") /\ last[s].ret = "FileWriteError" /\ last[s].val # <<>>

\* C23: while commit() runs it is at the entries of the buffer in insertion
\* order: every entry before the current one is final with its bytes and has
\* no staging file, no file of an entry after it has been touched; when
\* commit() fails at entry j the final file of every entry after j is as it
\* was at the call; and add() of a new name appends it to the order while
\* add() of a buffered name leaves the order as it is.
C23_CommitInOrder ==
    /\ [](\A s \in Sessions :
            (last[s].op = "commit" /\ pc[s] \in CommitLabels) =>
              LET d == last[s].buf
                  j == Len(d) - Len(keys[s]) + 1
              IN /\ j \in 1..Len(d)
                 /\ Head(keys[s]) = d[j][1]
                 /\ \A i \in 1..Len(d) :
                      NoClash(d, d[i][1]) =>
                        /\ i < j => /\ GetResult(fs, d[i][1]) = [ret |-> "ok", val |-> d[i][2]]
                                    /\ ~Exists(fs, PendingName(d[i][1]))
                        /\ i > j => /\ SameFinal(fs, last[s].fs0, d[i][1])
                                    /\ SameFinal(fs, last[s].fs0, PendingName(d[i][1])))
    /\ [](\A s \in Sessions :
            CommitFailed(s) =>
              \A i \in 1..Len(last[s].buf) :
                (i > IndexOf(last[s].buf, last[s].val[2])
                   /\ NoClash(last[s].buf, last[s].buf[i][1])) =>
                  SameFinal(fs, last[s].fs0, last[s].buf[i][1]))
    /\ [][\A s \in Sessions :
            (pending'[s] # pending[s] /\ pending'[s] # <<>>) =>
              LET old == [i \in 1..Len(pending[s]) |-> pending[s][i][1]]
                  new == [i \in 1..Len(pending'[s]) |-> pending'[s][i][1]]
              IN \/ new = old
                 \/ \E n \in Names : ~HasKey(pending[s], n) /\ new = Append(old, n)]_vars
\* commit() failed at the first of two entries and the final file the second
\* had before the call is still there
C23_Witness ==
    \E s \in Sessions :
      /\ CommitFailed(s)
      /\ Len(last[s].buf) = 2
      /\ IndexOf(last[s].buf, last[s].val[2]) = 1
      /\ NoClash(last[s].buf, last[s].buf[2][1])
      /\ Exists(last[s].fs0, last[s].buf[2][1])
      /\ Exists(fs, last[s].buf[2][1])
      /\ fs[last[s].buf[2][1]] = OldContent

\* what a get() returned, ranked in the order the claim gives: the old
\* content, then not found, then other content
ReadRank(r) ==
    IF r.ret = "ok" /\ r.val = OldContent THEN 0
    ELSE IF r.ret # "ok" THEN 1 ELSE 2
\* the commit() the writer is in, or has just finished, replaces the final
\* file of n, which held the old content when commit() was called
CommitsOver(l, n) ==
    /\ l.op = "commit"
    /\ HasKey(l.buf, n)
    /\ Exists(l.fs0, n) /\ l.fs0[n] = OldContent

\* C24: while the writer commits n (new content c2) over a final file that
\* held c1 and only the writer writes, every get(n) of the reader returns
\* c1, not found or c2, and in that order: a get(n) after one that returned
\* not found does not return c1, and a get(n) after one that returned c2
\* returns c2.
C24_ReaderOrder ==
    [][\A n \in RaceNames :
         ( /\ last'[Reader] # last[Reader]
           /\ last'[Reader].op = "get" /\ last'[Reader].arg = n
           /\ CommitsOver(last'[Writer], n) ) =>
           /\ \/ last'[Reader].ret = "ok" /\ last'[Reader].val = OldContent
              \/ last'[Reader].ret = "builtins.FileNotFoundError"
              \/ last'[Reader].ret = "ok" /\ last'[Reader].val = Lookup(last'[Writer].buf, n)
           /\ (last[Reader].op = "get" /\ last[Reader].arg = n) =>
                ReadRank(last'[Reader]) >= ReadRank(last[Reader])]_vars
\* the reader's get(n) found no file while the writer stood between the
\* removal of the final file and the rename
C24_Witness ==
    \E n \in RaceNames :
      /\ CommitsOver(last[Writer], n)
      /\ pc[Writer] \in {"cm_chkpend", "cm_rename"}
      /\ Head(keys[Writer]) = n
      /\ last[Reader].op = "get" /\ last[Reader].arg = n
      /\ last[Reader].ret = "builtins.FileNotFoundError"
      /\ last[Reader].fs0 = fs

\* the step is a call of add() by session s
AddStep(s) == budget'[s] < budget[s] /\ last'[s].op = "add"

\* C25: add(n, c) does no I/O and changes only the entry for n in the buffer
\* of the calling session: the storage root, the open files, every other
\* entry of that buffer (and its place) and everything of every other session
\* stay as they were, and afterwards the buffer holds exactly one entry for
\* n, also when n was buffered before.
C25_AddFrame ==
    [][\A s \in Sessions :
         AddStep(s) =>
           LET n == last'[s].arg IN
           /\ fs' = fs /\ fd' = fd /\ fuel' = fuel
           /\ \A t \in Sessions \ {s} :
                pending'[t] = pending[t] /\ last'[t] = last[t] /\ pc'[t] = pc[t]
           /\ Cardinality({i \in 1..Len(pending'[s]) : pending'[s][i][1] = n}) = 1
           /\ pending'[s][IndexOf(pending'[s], n)][2] \in Contents
           /\ \A i \in 1..Len(pending[s]) :
                pending[s][i][1] # n => pending'[s][i] = pending[s][i]
           /\ Len(pending'[s]) = IF HasKey(pending[s], n) THEN Len(pending[s])
                                 ELSE Len(pending[s]) + 1]_vars
\* the last call of a session was an add() for a name it had buffered with
\* other bytes, while the other session has a buffer of its own and staging
\* files exist
C25_Witness ==
    \E s \in Sessions : \E t \in Sessions \ {s} :
      /\ last[s].op = "add" /\ last[s].ret = "ok"
      /\ HasKey(last[s].buf, last[s].arg)
      /\ Lookup(last[s].buf, last[s].arg) # Lookup(pending[s], last[s].arg)
      /\ Len(pending[s]) = Len(last[s].buf)
      /\ pending[t] # <<>>
      /\ fs # <<>>

\* session t has buffered nothing: of the calls that touch the storage root
\* only its recover() does anything
OnlyRecovers(t) == hist[t].names = {} /\ pending[t] = <<>>

\* C26: with a second session that only runs recover(), at any moment, a
\* commit() that returned without error has made every buffered entry a final
\* file with its buffered content, and no recover() has raised.
C26_RecoverSafe ==
    \A s \in Sessions : \A t \in Sessions \ {s} :
      OnlyRecovers(t) =>
        /\ (Returned(s, "commit") /\ last[s].ret = "ok") =>
             \A i \in 1..Len(last[s].buf) :
               NoClash(last[s].buf, last[s].buf[i][1]) =>
                 GetResult(fs, last[s].buf[i][1]) = [ret |-> "ok", val |-> last[s].buf[i][2]]
        /\ last[t].op = "recover" => last[t].ret \in {"run", "ok"}

\* file f holds the bytes session t has buffered for the name f is the
\* staging file of, and session s has not buffered these bytes for it
WrittenByOther(s, t, f) ==
    \E n \in Names :
      /\ f = PendingName(n)
      /\ HasKey(pending[t], n) /\ fs[f] = Lookup(pending[t], n)
      /\ HasKey(last[s].buf, n) => fs[f] # Lookup(last[s].buf, n)

\* C27: every file a rollback() removes is the staging file of a name in
\* the buffer of the session that rolls back, and is not a file holding what
\* another active session has staged.
C27_RollbackOwnOnly ==
    [][\A s \in Sessions :
         (pc[s] = "rb_rm" /\ pc'[s] # "rb_rm") =>
           \A f \in DOMAIN fs \ DOMAIN fs' :
             /\ \E i \in 1..Len(last[s].buf) : f = PendingName(last[s].buf[i][1])
             /\ \A t \in Sessions \ {s} : ~WrittenByOther(s, t, f)]_vars

\* C28: once a commit() that buffered n has returned without error and n is
\* a final file with the committed bytes, a recover() or a flush() of another
\* session that has not buffered n (whatever the name, reserved prefix or
\* not) leaves n with these bytes.
C28_CommittedSurvives ==
    \A s \in Sessions : \A t \in Sessions \ {s} : \A n \in Names :
      ( /\ Returned(s, "commit") /\ last[s].ret = "ok"
        /\ HasKey(last[s].buf, n)
        /\ last[t].op \in {"recover", "flush"}
        /\ ~HasKey(last[t].buf, n)
        /\ GetResult(last[t].fs0, n) = [ret |-> "ok", val |-> Lookup(last[s].buf, n)] ) =>
        GetResult(fs, n) = [ret |-> "ok", val |-> Lookup(last[s].buf, n)]

\* session s runs alone
Alone(s) == \A t \in Sessions \ {s} : kind[t] = "off"
\* sync_storage_with_db of session s has returned without error
Synced(s) == last[s].op = "delete_files_not_in_uuids" /\ last[s].ret = "ok"
\* the storage root f without the listed files whose name is not in uuids
WithoutUnknown(f, uuids) ==
    [p \in {q \in DOMAIN f : StartsWith(q, Prefix) \/ q \in uuids} |-> f[p]]

\* C29: when sync_storage_with_db has returned in a unit of work that runs
\* alone, the storage root is the root at the call without the files whose
\* name has no reserved prefix and is not the uuid of a metadata record, and
\* no metadata record is left whose file is missing from the storage.
C29_SyncExact ==
    \A s \in Sessions :
      (Alone(s) /\ Synced(s)) =>
        /\ fs = WithoutUnknown(last[s].fs0, last[s].arg)
        /\ \A n \in MetaList(s) : Exists(fs, n)

C31_DeleteImmediate ==
    /\ [](\A s \in Sessions :
            (Returned(s, "delete") /\ last[s].ret = "ok") =>
              /\ last[s].val = (IF Exists(last[s].fs0, last[s].arg) THEN <<"True">> ELSE <<"False">>)
              /\ ~Exists(fs, last[s].arg)
              /\ DOMAIN fs = DOMAIN last[s].fs0 \ {last[s].arg}
              /\ \A p \in DOMAIN fs : fs[p] = last[s].fs0[p]
              /\ pending[s] = last[s].buf)
    /\ [][\A s \in Sessions :
            (last[s].op = "rollback" /\ last[s].ret = "run") =>
              /\ DOMAIN fs' \subseteq DOMAIN fs
              /\ \A p \in DOMAIN fs' : fs'[p] = fs[p]]_vars
\* a unit of work deleted a file it had found at its start, then failed and
\* rolled back the file session: the unit has ended and the file is gone
C31_Witness ==
    \E s \in Sessions : \E n \in Names :
      /\ IsUnit(s) /\ pc[s] = "done"
      /\ InLog(s, "delete_ok") /\ InLog(s, "fs_rollback_ok")
      /\ n \notin hist[s].names
      /\ Exists(hist[s].root, n) /\ ~Exists(fs, n)

\* C32: a commit() or rollback() called with an empty buffer returns without
\* error and leaves the storage root as it was; the commit or rollback get_fs
\* runs after the coordinator has committed or rolled back the same session
\* is such a call; and every step of a rollback() leaves every file that is
\* not the staging file of a name of its buffer as it is.
C32_EmptyIsNoOp ==
    /\ [](\A s \in Sessions :
            /\ (last[s].op \in {"commit", "rollback"} /\ last[s].buf = <<>>) =>
                 (last[s].ret = "ok" /\ fs = last[s].fs0)
            /\ (kind[s] = "nested" /\ InLog(s, "fs_commit_ok")) =>
                 /\ ~InLog(s, "outer_commit_fail")
                 /\ InLog(s, "outer_commit_ok") => (last[s].op = "commit" /\ last[s].buf = <<>>)
            /\ ( /\ kind[s] = "nested"
                 /\ InLog(s, "fs_rollback_ok") \/ InLog(s, "fs_rollback_fail") ) =>
                 /\ ~InLog(s, "outer_rollback_fail")
                 /\ InLog(s, "outer_rollback_ok") => (last[s].op = "rollback" /\ last[s].buf = <<>>))
    /\ [][\A s \in Sessions :
            (last[s].op = "rollback" /\ last[s].ret = "run") =>
              \A p \in DOMAIN fs :
                (\A i \in 1..Len(last[s].buf) : p # PendingName(last[s].buf[i][1])) =>
                  (p \in DOMAIN fs' /\ fs'[p] = fs[p])]_vars
\* a nested unit of work has ended after the coordinator's commit made a
\* final file and get_fs committed the same session again
C32_Witness ==
    \E s \in Sessions : \E n \in Names :
      /\ kind[s] = "nested" /\ pc[s] = "done"
      /\ InLog(s, "fs_commit_ok") /\ InLog(s, "outer_commit_ok")
      /\ n \in hist[s].names
      /\ Exists(fs, n) /\ fs[n] \in Contents
      /\ last[s].op = "commit" /\ last[s].buf = <<>> /\ last[s].fs0 = fs

\* commit() of session s raised at step l of entry n, whose final file
\* existed when commit() was called, with bytes other than the buffered ones
FailedOver(s, l, n) ==
    /\ Returned(s, "commit") /\ last[s].ret \notin {"ok", "CancelledError"}
    /\ last[s].val = <<l, n>>
    /\ NoClash(last[s].buf, n)
    /\ Exists(last[s].fs0, n) /\ last[s].fs0[n] # Lookup(last[s].buf, n)

\* C33: after a commit() that failed at entry n over an existing final
\* file: if it failed at the open or the write of the staging file, n holds
\* the old content; if it failed at the rename, no file n exists; in neither
\* case does n hold the new content; and no step of a rollback() creates a
\* file, so the following rollback does not restore the old content.
C33_FailedCommitFinal ==
    /\ [](\A s \in Sessions : \A n \in Names :
            /\ \A l \in {"cm_open", "cm_write"} :
                 FailedOver(s, l, n) => (Exists(fs, n) /\ fs[n] = last[s].fs0[n])
            /\ FailedOver(s, "cm_rename", n) => ~Exists(fs, n)
            /\ \A l \in CommitLabels :
                 FailedOver(s, l, n) => ~(Exists(fs, n) /\ fs[n] = Lookup(last[s].buf, n)))
    /\ [][\A s \in Sessions :
            (last[s].op = "rollback" /\ last[s].ret = "run") =>
              DOMAIN fs' \subseteq DOMAIN fs]_vars
\* the rename failed after the old final file had been removed
C33_Witness ==
    \E s \in Sessions : \E n \in Names :
      /\ FailedOver(s, "cm_rename", n)
      /\ last[s].fs0[n] = OldContent
      /\ ~Exists(fs, n)
      /\ Exists(fs, PendingName(n))

\* the terminal states of the unit of work of session s
Committed(s) == IsUnit(s) /\ pc[s] = "done" /\ exc[s] = "none"
Aborted(s) == IsUnit(s) /\ pc[s] = "done" /\ exc[s] # "none"
\* the unit of session s has left OPEN: the generator runs after its yield
LeftOpen(s) == IsUnit(s) /\ InLog(s, "open") /\ pc[s] \notin {"u_open", "fl_open", "fl_write", "dl_rm"}

\* C34: a unit of work that has left OPEN reaches a terminal state, and
\* stays in the one it reached; it is COMMITTED only with the database
\* commit and the file commit both succeeded, and it never ends without an
\* exception after either of them failed.
C34_UnitTerminates ==
    /\ \A s \in Sessions : LeftOpen(s) ~> (Committed(s) \/ Aborted(s))
    /\ [][\A s \in Sessions :
            (Committed(s) => Committed(s)') /\ (Aborted(s) => Aborted(s)')]_vars
    /\ [](\A s \in Sessions :
            /\ Committed(s) => (InLog(s, "db_commit_ok") /\ InLog(s, "fs_commit_ok"))
            /\ (InLog(s, "db_commit_fail") \/ InLog(s, "fs_commit_fail")) => ~Committed(s))
\* a unit has ended COMMITTED after both commits
C34_Witness ==
    \E s \in Sessions :
      /\ Committed(s)
      /\ InLog(s, "open") /\ InLog(s, "db_commit_ok") /\ InLog(s, "fs_commit_ok")
      /\ hist[s].names # {}

============================================================================
